---- MODULE Spec2Model ----
(***************************************************************************)
(* hubot-command: the Command parse/dispatch engine (Command.js), its      *)
(* Parameter classes and the TestCommand of the test suite.                *)
(*                                                                         *)
(* Texts are sequences of one-character strings, so that substring,        *)
(* split, trim and the /help/ match are computed character by character    *)
(* as the JavaScript does.                                                 *)
(***************************************************************************)
EXTENDS Integers, Sequences, FiniteSets, TLC

VARIABLES class, parameters, model, pc, call, earlier, other, probe, redis

vars == <<class, parameters, model, pc, call, earlier, other, probe, redis>>

----------------------------------------------------------------------------
(* Bounds of the explored inputs *)

\* greatest number of space-separated words after the command name
MaxWords == 4

\* greatest number of words of an input given to a command that is used again
MaxReuseWords == 2

----------------------------------------------------------------------------
(* String literals of the source *)

name == <<"t", "e", "s", "t">>

FROM == <<"f", "r", "o", "m">>

TO == <<"t", "o">>

COMPLEX == <<"c", "o", "m", "p", "l", "e", "x">>

HELP == <<"h", "e", "l", "p">>

SPACE == <<" ">>

\* TEST_COMMAND_INPUT_STRING of test.js is "test from D0900 to D1030"
D0900 == <<"2", "0", "1", "5", "-", "1", "2", "-", "0", "1", "T", "0", "9", ":", "0", "0">>

D1030 == <<"2", "0", "1", "5", "-", "1", "2", "-", "0", "1", "T", "1", "0", ":", "3", "0">>

\* the literal TestCommand.validate compares model.complexDump with
WHOLE_EXPECTED == FROM \o SPACE \o D0900 \o SPACE \o TO \o SPACE \o D1030

TEST_HELP == <<"A", " ", "t", "e", "s", "t", " ", "c", "o", "m", "m", "a", "n", "d", " ", "t", "o", " ", "p", "r", "o", "v", "e", " ", "t", "h", "a", "t", " ", "t", "h", "e", " ", "l", "i", "b", "r", "a", "r", "y", " ", "w", "o", "r", "k", "s">>

TO_HEADER == <<"w", "h", "e", "n", " ", "t", "o", " ", "s", "t", "o", "p">>

TO_DETAIL == <<"W", "h", "e", "n", " ", "t", "o", " ", "s", "t", "o", "p", " ", "t", "h", "e", " ", "c", "o", "m", "m", "a", "n", "d", ".", " ", "I", "S", "O", "8", "6", "0", "1", " ", "d", "a", "t", "e", " ", "f", "o", "r", "m", "a", "t", " ", "e", "x", "p", "e", "c", "t", "e", "d", ".">>

COMPLEX_HEADER == <<"A", "n", " ", "a", "r", "b", "i", "t", "r", "a", "r", "y", " ", "c", "o", "m", "p", "l", "e", "x", " ", "p", "a", "r", "a", "m", "e", "t", "e", "r", " ", "t", "h", "a", "t", " ", "n", "e", "e", "d", "s", " ", "t", "h", "e", " ", "w", "h", "o", "l", "e", " ", "c", "o", "m", "m", "a", "n", "d", " ", "i", "n", "p", "u", "t", " ", "s", "t", "r", "i", "n", "g", ".">>

COMPLEX_DETAIL == <<"d", "e", "t", "a", "i", "l">>

PARAMETERS_TITLE == <<"\n", "\n", "P", "a", "r", "a", "m", "e", "t", "e", "r", "s", ":", "\n">>

\* the messages of the errors the source throws
GIVEN_INPUT == <<"T", "h", "e", " ", "g", "i", "v", "e", "n", " ", "i", "n", "p", "u", "t", " ", "(">>

CANNOT_BE_PARSED == <<")", " ", "c", "a", "n", "n", "o", "t", " ", "b", "e", " ", "p", "a", "r", "s", "e", "d", " ", "b", "y", " ", "t", "h", "e", " ", "c", "o", "m", "m", "a", "n", "d", " ">>

THE_QUOTED == <<"t", "h", "e", " ", "\"">>

CANNOT_BE_EMPTY == <<"\"", " ", "p", "a", "r", "a", "m", "e", "t", "e", "r", " ", "c", "a", "n", "n", "o", "t", " ", "b", "e", " ", "e", "m", "p", "t", "y">>

NOT_VALID == <<"T", "h", "e", " ", "a", "r", "g", "u", "m", "e", "n", "t", "s", " ", "p", "a", "s", "s", "e", "d", " ", "t", "o", " ", "t", "h", "e", " ", "p", "a", "r", "a", "m", "e", "t", "e", "r", " ", "a", "r", "e", " ", "n", "o", "t", " ", "v", "a", "l", "i", "d">>

GIVEN_PARAMETER == <<"T", "h", "e", " ", "g", "i", "v", "e", "n", " ", "p", "a", "r", "a", "m", "e", "t", "e", "r", " ", "(">>

DOES_NOT_EXIST == <<")", " ", "d", "o", "e", "s", " ", "n", "o", "t", " ", "e", "x", "i", "s", "t", " ", "f", "o", "r", " ", "t", "h", "i", "s", " ", "c", "o", "m", "m", "a", "n", "d", ".">>

RUN_UNIMPLEMENTED == <<"T", "h", "e", " ", "r", "u", "n", " ", "m", "e", "t", "h", "o", "d", " ", "m", "u", "s", "t", " ", "b", "e", " ", "i", "m", "p", "l", "e", "m", "e", "n", "t", "e", "d", " ", "b", "y", " ", "t", "h", "e", " ", "C", "o", "m", "m", "a", "n", "d", " ", "s", "u", "b", "c", "l", "a", "s", "s">>

\* the message of an error the JavaScript engine throws: its text is the
\* engine's, not the program's
ENGINE_MESSAGE == <<>>

\* a Parameter object: its name, and which of the objects constructed with
\* that name it is
Parameter(parameterName, k) == [kind |-> "parameter", name |-> parameterName, id |-> k]

\* the value getParameter returns for a name that is not registered
NULL == [kind |-> "null", name |-> <<>>, id |-> 0]

\* a property that the parameters object, a plain {}, inherits from
\* Object.prototype: neither undefined nor a Parameter
CONSTRUCTOR == <<"c", "o", "n", "s", "t", "r", "u", "c", "t", "o", "r">>

PrototypeKeys == {CONSTRUCTOR}

Inherited(key) == [kind |-> "inherited", name |-> key, id |-> 0]

\* the param of a log event that is no conversion
NoName == <<>>

\* the value of a model field that was never written
UNDEFINED == <<"undefined">>

----------------------------------------------------------------------------
(* JavaScript string functions, on sequences of characters *)

\* s.substring(start) and s.substring(0, end), indices clamped to the length
SubstringFrom(s, start) == SubSeq(s, start + 1, Len(s))

SubstringTo(s, end) == SubSeq(s, 1, IF end < Len(s) THEN end ELSE Len(s))

\* the least i with pat at s[i..], or 0: s.indexOf(pat) + 1
RECURSIVE IndexFrom(_, _, _)
IndexFrom(s, pat, i) ==
    IF i + Len(pat) - 1 > Len(s) THEN 0
    ELSE IF SubSeq(s, i, i + Len(pat) - 1) = pat THEN i
    ELSE IndexFrom(s, pat, i + 1)

IndexOf(s, pat) == IndexFrom(s, pat, 1)

\* s.replace(pat, "") with a string pattern: the first occurrence only
ReplaceFirst(s, pat) ==
    LET i == IndexOf(s, pat)
    IN  IF i = 0 THEN s
        ELSE SubSeq(s, 1, i - 1) \o SubSeq(s, i + Len(pat), Len(s))

RECURSIVE TrimLeft(_)
TrimLeft(s) ==
    IF s # <<>> /\ Head(s) \in {" ", "\t", "\n"} THEN TrimLeft(Tail(s)) ELSE s

RECURSIVE TrimRight(_)
TrimRight(s) ==
    IF s # <<>> /\ s[Len(s)] \in {" ", "\t", "\n"}
    THEN TrimRight(SubSeq(s, 1, Len(s) - 1)) ELSE s

\* s.trim()
Trim(s) == TrimRight(TrimLeft(s))

\* s.split(" "): the pieces between single spaces, empty pieces kept
RECURSIVE SplitFrom(_, _, _)
SplitFrom(s, i, word) ==
    IF i > Len(s) THEN <<word>>
    ELSE IF s[i] = " " THEN <<word>> \o SplitFrom(s, i + 1, <<>>)
    ELSE SplitFrom(s, i + 1, Append(word, s[i]))

Split(s) == SplitFrom(s, 1, <<>>)

----------------------------------------------------------------------------
(* The model: a mapping from field names to values *)

EmptyModel == [f \in {} |-> UNDEFINED]

Has(m, f) == f \in DOMAIN m

Get(m, f) == IF Has(m, f) THEN m[f] ELSE UNDEFINED

Put(m, f, v) == [g \in DOMAIN m \cup {f} |-> IF g = f THEN v ELSE m[g]]

\* new Date(text): minutes after 2015-12-01T00:00, or an Invalid Date
NewDate(text) ==
    IF text = D0900 THEN [valid |-> TRUE, time |-> 540]
    ELSE IF text = D1030 THEN [valid |-> TRUE, time |-> 630]
    ELSE [valid |-> FALSE, time |-> 0]

\* a.getTime() < b.getTime(); a comparison with NaN is false
TimeBefore(a, b) == a.valid /\ b.valid /\ a.time < b.time

----------------------------------------------------------------------------
(* Parameters *)

ParameterNames == {FROM, TO, COMPLEX}

\* the parameters a subclass other than TestCommand adds, in any order
AddableParameters == {FROM, TO}

\* Parameter.constructor: wholeCommandString defaults to false;
\* ComplexParameter passes true
wholeCommandString(p) == p = COMPLEX

\* Parameter.constructor: help.header defaults to the name, help.detail to ""
helpHeader(p) ==
    IF p = TO THEN TO_HEADER ELSE IF p = COMPLEX THEN COMPLEX_HEADER ELSE p

helpDetail(p) ==
    IF p = TO THEN TO_DETAIL ELSE IF p = COMPLEX THEN COMPLEX_DETAIL ELSE <<>>

\* parameter.parse(text) of FromParameter, ToParameter and ComplexParameter, on
\* the state st of a parse in progress: the call is logged, then the model is
\* written or a ParseError is thrown
ParameterParse(p, text, st) ==
    LET logged == [st EXCEPT !.log = Append(@, [op |-> "parse", param |-> p.name, text |-> text])]
    IN  IF p.name = COMPLEX
        THEN [logged EXCEPT !.model = Put(@, "complexDump", text)]
        ELSE IF text = <<>>
        THEN [logged EXCEPT !.err = "ParseError",
                            !.msg = THE_QUOTED \o p.name \o CANNOT_BE_EMPTY]
        ELSE [logged EXCEPT !.model = Put(@, IF p.name = FROM THEN "from" ELSE "to", NewDate(text))]

----------------------------------------------------------------------------
(* Command *)

\* Command.getParameter: params is the sequence of the registered Parameter
\* objects, in the order their names were inserted. this.parameters[name]
\* is undefined, and so null, only for a name that is neither registered
\* nor inherited
getParameter(params, parameterName) ==
    IF \E i \in 1..Len(params) : params[i].name = parameterName
    THEN params[CHOOSE i \in 1..Len(params) : params[i].name = parameterName]
    ELSE IF parameterName \in PrototypeKeys THEN Inherited(parameterName)
    ELSE NULL

\* Command.addParameter: parameters[parameter.name] = parameter; a key that
\* exists keeps its place and gets the new object
Digits == <<"0", "1", "2", "3", "4", "5", "6", "7", "8", "9">>

\* a property key the engine treats as an array index: a canonical decimal
\* numeral (keys of the lengths met here are far below the 2^32 - 1 limit)
IsArrayIndex(key) ==
    /\ key # <<>>
    /\ \A i \in 1..Len(key) : \E d \in 1..Len(Digits) : Digits[d] = key[i]
    /\ (Len(key) = 1 \/ key[1] # "0")

RECURSIVE NumberOf(_)
NumberOf(key) ==
    IF key = <<>> THEN 0
    ELSE NumberOf(SubSeq(key, 1, Len(key) - 1)) * Len(Digits)
         + (CHOOSE d \in 1..Len(Digits) : Digits[d] = key[Len(key)]) - 1

\* this.parameters[parameter.name] = parameter, on the own keys of the object
\* in the order for...in enumerates them: a key that is already there keeps
\* its place, a new array-index key goes among the array-index keys in
\* ascending numeric order, which come first, any other new key goes last
addParameter(params, p) ==
    IF \E i \in 1..Len(params) : params[i].name = p.name
    THEN [i \in 1..Len(params) |-> IF params[i].name = p.name THEN p ELSE params[i]]
    ELSE IF IsArrayIndex(p.name)
    THEN LET before == Cardinality({i \in 1..Len(params) :
                            /\ IsArrayIndex(params[i].name)
                            /\ NumberOf(params[i].name) < NumberOf(p.name)})
         IN  SubSeq(params, 1, before) \o <<p>> \o SubSeq(params, before + 1, Len(params))
    ELSE Append(params, p)

\* a variant that accepts every text
willParseCommand_AcceptsAll(commandString) == TRUE

\* a variant that wants the name to be a word of its own
willParseCommand_WordBoundary(commandString) ==
    /\ SubstringTo(commandString, Len(name)) = name
    /\ (Len(commandString) = Len(name) \/ commandString[Len(name) + 1] = " ")

willParseCommand(commandString) ==
    SubstringTo(commandString, Len(name)) = name

\* a variant that asks for help as a word of its own
isHelpCommand_WholeWord(inputCommand) ==
    \E i \in 1..Len(Split(inputCommand)) : Split(inputCommand)[i] = HELP

isHelpCommand(inputCommand) == IndexOf(inputCommand, HELP) # 0

\* a variant that catches what parse throws and goes on
InvokeParse_IgnoresFailure(p, text, st) ==
    IF p.kind # "parameter" THEN [st EXCEPT !.err = "TypeError", !.msg = ENGINE_MESSAGE]
    ELSE [ParameterParse(p, text, st) EXCEPT !.err = "none", !.msg = <<>>]

\* a call of parse on previousParameter, which may be null or a value that
\* has no parse method
InvokeParse(p, text, st) ==
    IF p.kind # "parameter" THEN [st EXCEPT !.err = "TypeError", !.msg = ENGINE_MESSAGE]
    ELSE ParameterParse(p, text, st)

\* a variant of the loop that does not empty the buffer at a boundary word
RECURSIVE ScanWords_KeepsBuffer(_, _, _, _)
ScanWords_KeepsBuffer(params, words, i, st) ==
    IF st.err # "none" \/ i > Len(words) THEN st
    ELSE LET currentWord == words[i]
             potentialParameter == getParameter(params, currentWord)
         IN  IF potentialParameter # NULL
             THEN LET st1 == IF st.previousParameter # NULL
                             THEN InvokeParse(st.previousParameter, Trim(st.buffer), st)
                             ELSE st
                  IN  ScanWords_KeepsBuffer(params, words, i + 1,
                                [st1 EXCEPT !.previousParameter = potentialParameter])
             ELSE ScanWords_KeepsBuffer(params, words, i + 1,
                            [st EXCEPT !.buffer = @ \o currentWord \o SPACE])

\* a variant of the loop that empties the buffer only when it has been
\* passed to a parameter
RECURSIVE ScanWords_KeepsLeadingWords(_, _, _, _)
ScanWords_KeepsLeadingWords(params, words, i, st) ==
    IF st.err # "none" \/ i > Len(words) THEN st
    ELSE LET currentWord == words[i]
             potentialParameter == getParameter(params, currentWord)
         IN  IF potentialParameter # NULL
             THEN IF st.previousParameter # NULL
                  THEN ScanWords_KeepsLeadingWords(params, words, i + 1,
                           [InvokeParse(st.previousParameter, Trim(st.buffer), st)
                                EXCEPT !.previousParameter = potentialParameter,
                                       !.buffer = <<>>])
                  ELSE ScanWords_KeepsLeadingWords(params, words, i + 1,
                           [st EXCEPT !.previousParameter = potentialParameter])
             ELSE ScanWords_KeepsLeadingWords(params, words, i + 1,
                            [st EXCEPT !.buffer = @ \o currentWord \o SPACE])

\* a variant of the loop that takes a parameter name met again right after
\* itself for the same parameter going on
RECURSIVE ScanWords_SkipsRepeated(_, _, _, _)
ScanWords_SkipsRepeated(params, words, i, st) ==
    IF st.err # "none" \/ i > Len(words) THEN st
    ELSE LET currentWord == words[i]
             potentialParameter == getParameter(params, currentWord)
         IN  IF potentialParameter # NULL
             THEN LET st1 == IF st.previousParameter # NULL
                                /\ st.previousParameter # potentialParameter
                             THEN InvokeParse(st.previousParameter, Trim(st.buffer), st)
                             ELSE st
                  IN  ScanWords_SkipsRepeated(params, words, i + 1,
                                [st1 EXCEPT !.previousParameter = potentialParameter,
                                            !.buffer = <<>>])
             ELSE ScanWords_SkipsRepeated(params, words, i + 1,
                            [st EXCEPT !.buffer = @ \o currentWord \o SPACE])

\* the for loop of Command._parse over words[i..]
RECURSIVE ScanWords(_, _, _, _)
ScanWords(params, words, i, st) ==
    IF st.err # "none" \/ i > Len(words) THEN st
    ELSE LET currentWord == words[i]
             potentialParameter == getParameter(params, currentWord)
         IN  IF potentialParameter # NULL
             THEN LET st1 == IF st.previousParameter # NULL
                             THEN InvokeParse(st.previousParameter, Trim(st.buffer), st)
                             ELSE st
                  IN  ScanWords(params, words, i + 1,
                                [st1 EXCEPT !.previousParameter = potentialParameter,
                                            !.buffer = <<>>])
             ELSE ScanWords(params, words, i + 1,
                            [st EXCEPT !.buffer = @ \o currentWord \o SPACE])

\* a variant that parses the last parameter only when it has a text
Finalize_OnlyWithText(st) ==
    IF st.err # "none" THEN st
    ELSE IF st.buffer # <<>>
    THEN InvokeParse(st.previousParameter, Trim(st.buffer), st)
    ELSE st

\* the parse of the last parameter after the loop
Finalize(st) ==
    IF st.err # "none" THEN st
    ELSE IF st.buffer # <<>> \/ st.previousParameter # NULL
    THEN InvokeParse(st.previousParameter, Trim(st.buffer), st)
    ELSE st

\* Command.validate (always true) and TestCommand.validate: "true", "false",
\* or "TypeError" when model.from or model.to is undefined
validate(cls, m) ==
    IF cls # "TestCommand" THEN "true"
    ELSE IF ~Has(m, "from") \/ ~Has(m, "to") THEN "TypeError"
    ELSE LET areDatesCorrect == TimeBefore(m["from"], m["to"])
             isWholeParameterCorrect == Get(m, "complexDump") = WHOLE_EXPECTED
         IN  IF areDatesCorrect /\ isWholeParameterCorrect THEN "true" ELSE "false"

\* a variant that calls validate and ignores what it returns
Validate_IgnoresFalse(cls, st) ==
    IF st.err # "none" THEN st
    ELSE LET v == validate(cls, st.model)
             logged == [st EXCEPT !.log = Append(@, [op |-> "validate", param |-> NoName, text |-> <<>>]),
                                  !.validated = v]
         IN  IF v = "TypeError" THEN [logged EXCEPT !.err = "TypeError"]
             ELSE logged

\* the validate step of Command._parse
Validate(cls, st) ==
    IF st.err # "none" THEN st
    ELSE LET v == validate(cls, st.model)
             logged == [st EXCEPT !.log = Append(@, [op |-> "validate", param |-> NoName, text |-> <<>>]),
                                  !.validated = v]
         IN  IF v = "TypeError" THEN [logged EXCEPT !.err = "TypeError", !.msg = ENGINE_MESSAGE]
             ELSE IF v = "false" THEN [logged EXCEPT !.err = "ValidationError", !.msg = NOT_VALID]
             ELSE logged

\* Command._parse, from the model m of the instance
ParseStart(m) ==
    [model |-> m, log |-> <<>>, err |-> "none", msg |-> <<>>, validated |-> "none",
     argument |-> <<>>, buffer |-> <<>>, previousParameter |-> NULL]

\* a variant that removes the name and then the white space around the rest
argumentOf_TrimsAfterName(commandString) == Trim(SubstringFrom(commandString, Len(name)))

\* commandString.substring(self.name.length + 1): the text that is split
argumentOf(commandString) == SubstringFrom(commandString, Len(name) + 1)

\* a variant that validates before the last parameter is parsed
_parse_ValidatesEarly(cls, params, m, commandString) ==
    IF ~willParseCommand(commandString)
    THEN [ParseStart(m) EXCEPT !.err = "ParseError",
                               !.msg = GIVEN_INPUT \o commandString \o CANNOT_BE_PARSED \o name]
    ELSE LET argument == argumentOf(commandString)
             words == Split(argument)
         IN  Finalize(Validate(cls, ScanWords(params, words, 1,
                                              [ParseStart(m) EXCEPT !.argument = argument])))

_parse(cls, params, m, commandString) ==
    IF ~willParseCommand(commandString)
    THEN [ParseStart(m) EXCEPT !.err = "ParseError",
                               !.msg = GIVEN_INPUT \o commandString \o CANNOT_BE_PARSED \o name]
    ELSE LET argument == argumentOf(commandString)
             words == Split(argument)
         IN  Validate(cls, Finalize(ScanWords(params, words, 1,
                                              [ParseStart(m) EXCEPT !.argument = argument])))

\* the command's help attribute: the name by default, set by TestCommand
commandHelp(cls) == IF cls = "TestCommand" THEN TEST_HELP ELSE name

RECURSIVE ParameterListing(_, _)
ParameterListing(params, i) ==
    IF i > Len(params) THEN <<>>
    ELSE <<"\t", "-", " ">> \o params[i].name \o <<":", " ">> \o helpHeader(params[i].name)
         \o <<"\n">> \o ParameterListing(params, i + 1)

\* a variant that answers a parameter's help with its header
_help_HeaderForDetail(cls, params, inputCommand) ==
    LET parameterName == Trim(ReplaceFirst(ReplaceFirst(inputCommand, name), HELP))
        parameterMode == parameterName # <<>>
        parameter == getParameter(params, parameterName)
    IN  IF parameterMode
        THEN IF parameter = NULL
             THEN [err |-> "ParseError", result |-> <<>>,
                   msg |-> GIVEN_PARAMETER \o parameterName \o DOES_NOT_EXIST]
             ELSE IF parameter.kind = "inherited"
             THEN [err |-> "TypeError", result |-> <<>>, msg |-> ENGINE_MESSAGE]
             ELSE [err |-> "none", msg |-> <<>>,
                   result |-> parameter.name \o <<":", "\n", "\t">> \o helpHeader(parameter.name)]
        ELSE [err |-> "none", msg |-> <<>>,
              result |-> commandHelp(cls) \o PARAMETERS_TITLE \o ParameterListing(params, 1)]

\* Command._help: [err, msg, result]
_help(cls, params, inputCommand) ==
    LET parameterName == Trim(ReplaceFirst(ReplaceFirst(inputCommand, name), HELP))
        parameterMode == parameterName # <<>>
        parameter == getParameter(params, parameterName)
    IN  IF parameterMode
        THEN IF parameter = NULL
             THEN [err |-> "ParseError", result |-> <<>>,
                   msg |-> GIVEN_PARAMETER \o parameterName \o DOES_NOT_EXIST]
             ELSE IF parameter.kind = "inherited"
             THEN [err |-> "TypeError", result |-> <<>>, msg |-> ENGINE_MESSAGE]
             ELSE [err |-> "none", msg |-> <<>>,
                   result |-> parameter.name \o <<":", "\n", "\t">> \o helpDetail(parameter.name)]
        ELSE [err |-> "none", msg |-> <<>>,
              result |-> commandHelp(cls) \o PARAMETERS_TITLE \o ParameterListing(params, 1)]

----------------------------------------------------------------------------
(* Inputs *)

Words == {FROM, TO, COMPLEX, D0900, D1030, HELP}

\* what the text starts with: the command name, or nothing
Heads == {name, <<>>}

\* the character that follows the head
Separators == {" ", "i"}

WordSeqs(n) == UNION {[1..k -> Words] : k \in 0..n}

RECURSIVE Join(_)
Join(ws) ==
    IF ws = <<>> THEN <<>>
    ELSE IF Len(ws) = 1 THEN ws[1]
    ELSE ws[1] \o SPACE \o Join(Tail(ws))

InputsOf(n) ==
    Heads \cup {h \o <<c>> \o Join(ws) : h \in Heads, c \in Separators, ws \in WordSeqs(n)}

Inputs == InputsOf(MaxWords)

ReuseInputs == InputsOf(MaxReuseWords)

----------------------------------------------------------------------------
(* The state machine: a Command instance and its latest execute call *)

NoCall ==
    [text |-> <<>>, help |-> FALSE, argument |-> <<>>, log |-> <<>>, validated |-> "none",
     before |-> EmptyModel, parsed |-> EmptyModel,
     outcome |-> "none", error |-> "none", message |-> <<>>, result |-> <<>>,
     value |-> EmptyModel, seen |-> EmptyModel, runs |-> 0]

\* a redis server that holds no key: the store is the set of its keys, each
\* with the hash it holds
NoEntries == {}

NoProbe ==
    [kind |-> "none", asked |-> <<>>, got |-> NULL, accepts |-> FALSE, added |-> <<>>,
     returned |-> "none", before |-> NoEntries,
     hash |-> [name |-> <<>>, description |-> <<>>]]

\* the parameters TestCommand's constructor adds
TestParameters == <<Parameter(FROM, 1), Parameter(TO, 1), Parameter(COMPLEX, 1)>>

\* the state of an instance right after its constructor: TestCommand, a
\* subclass ("Command") that adds its parameters later, keeps
\* Command.validate and runs as TestCommand does, or Command itself ("Base"),
\* whose run throws
Constructed(cls) ==
    [class |-> cls,
     parameters |-> IF cls = "TestCommand" THEN TestParameters ELSE <<>>,
     model |-> EmptyModel, pc |-> "new", call |-> NoCall, earlier |-> NoCall]

\* this.model, the object the constructor gave to this instance; latest is
\* the model object the program wrote last, of whichever instance
modelOf_SharedByAll(own, latest) == latest

modelOf(own, latest) == own

InitOf(classes) ==
    /\ class \in classes
    /\ parameters = Constructed(class).parameters
    /\ model = EmptyModel
    /\ pc = "new"
    /\ call = NoCall
    /\ earlier = NoCall
    /\ probe = NoProbe
    /\ redis = NoEntries

Init == InitOf({"TestCommand", "Command"}) /\ other = Constructed(class)

AddParameter(p) ==
    /\ pc = "new"
    /\ parameters' = addParameter(parameters, Parameter(p, 1))
    /\ UNCHANGED <<class, model, pc, call, earlier, other, probe, redis>>

\* execute(inputCommand) up to its return, on an instance of class cls with
\* the parameters params and the model m: the help branch settles the
\* promise at once, the other branch parses and leaves run to a callback
execute(cls, params, m, inputCommand) ==
    IF isHelpCommand(inputCommand)
    THEN LET h == _help(cls, params, inputCommand)
         IN  [model |-> m,
              pc |-> "settled",
              call |-> [NoCall EXCEPT !.text = inputCommand, !.help = TRUE,
                                      !.before = m, !.parsed = m,
                                      !.outcome = IF h.err = "none" THEN "resolved" ELSE "rejected",
                                      !.error = h.err, !.message = h.msg,
                                      !.result = h.result]]
    ELSE LET st == _parse(cls, params, m, inputCommand)
         IN  [model |-> st.model,
              pc |-> IF st.err = "none" THEN "pending" ELSE "settled",
              call |-> [NoCall EXCEPT !.text = inputCommand, !.argument = st.argument,
                                      !.log = st.log,
                                      !.validated = st.validated,
                                      !.before = m, !.parsed = st.model,
                                      !.outcome = IF st.err = "none" THEN "pending" ELSE "rejected",
                                      !.error = st.err, !.message = st.msg]]

Execute(inputCommand) ==
    LET e == execute(class, parameters, model, inputCommand)
    IN  /\ model' = e.model
        /\ pc' = e.pc
        /\ call' = e.call
        /\ UNCHANGED <<class, parameters>>

FirstExecute ==
    /\ pc = "new"
    /\ \E inputCommand \in Inputs : Execute(inputCommand)
    /\ UNCHANGED <<earlier, other, probe, redis>>

\* the run method, on the model m: TestCommand.run sets model.executed and
\* returns the model, Command.run throws an Error
run(cls, m) ==
    IF cls = "Base"
    THEN [threw |-> TRUE, error |-> "Error", message |-> RUN_UNIMPLEMENTED,
          model |-> m, returned |-> EmptyModel]
    ELSE [threw |-> FALSE, error |-> "none", message |-> <<>>,
          model |-> Put(m, "executed", TRUE), returned |-> Put(m, "executed", TRUE)]

\* a variant of the callback that calls run and returns nothing
Settle_ReturnsNothing(r) ==
    IF r.threw
    THEN [outcome |-> "rejected", error |-> r.error, message |-> r.message, value |-> EmptyModel]
    ELSE [outcome |-> "resolved", error |-> "none", message |-> <<>>, value |-> EmptyModel]

\* the then callback of execute returns what run returns: the promise
\* resolves with it, or rejects with what run threw
Settle(r) ==
    IF r.threw
    THEN [outcome |-> "rejected", error |-> r.error, message |-> r.message, value |-> EmptyModel]
    ELSE [outcome |-> "resolved", error |-> "none", message |-> <<>>, value |-> r.returned]

\* a variant in which run reads the model as the parse of its own call left it
RunCallback_OwnSnapshot(cls, c, m) ==
    LET r == run(cls, c.parsed)
        s == Settle(r)
    IN  [model |-> r.model,
         call |-> [c EXCEPT !.log = Append(@, [op |-> "run", param |-> NoName, text |-> <<>>]),
                            !.runs = @ + 1, !.seen = c.parsed,
                            !.outcome = s.outcome, !.error = s.error,
                            !.message = s.message, !.value = s.value]]

\* the then callback of the call c, run on the model m the instance has by then
RunCallback(cls, c, m) ==
    LET r == run(cls, m)
        s == Settle(r)
    IN  [model |-> r.model,
         call |-> [c EXCEPT !.log = Append(@, [op |-> "run", param |-> NoName, text |-> <<>>]),
                            !.runs = @ + 1, !.seen = m,
                            !.outcome = s.outcome, !.error = s.error,
                            !.message = s.message, !.value = s.value]]

\* the callback of the latest call; callbacks run in the order of their calls
Run ==
    /\ pc = "pending"
    /\ earlier.outcome # "pending"
    /\ LET d == RunCallback(class, call, model)
       IN  /\ model' = d.model
           /\ call' = d.call
    /\ pc' = "settled"
    /\ UNCHANGED <<class, parameters, earlier, other, probe, redis>>

\* the instance is dropped and a new one is constructed
Renew ==
    /\ pc = "settled"
    /\ class' \in {"TestCommand", "Command"}
    /\ parameters' = Constructed(class').parameters
    /\ model' = EmptyModel
    /\ pc' = "new"
    /\ call' = NoCall
    /\ earlier' = NoCall
    /\ other' = Constructed(class')
    /\ probe' = NoProbe
    /\ UNCHANGED redis

Next ==
    \/ \E p \in AddableParameters : AddParameter(p)
    \/ FirstExecute
    \/ Run
    \/ Renew

Spec == Init /\ [][Next]_vars

----------------------------------------------------------------------------
(* One instance given one input after another *)

InitReuse == InitOf({"TestCommand", "Command", "Base"}) /\ other = Constructed(class)

\* the caller's then/catch handlers take the settled result; the instance
\* and its model are kept for the next input
Handled ==
    /\ pc = "settled"
    /\ earlier.outcome # "pending"
    /\ pc' = "idle"
    /\ call' = NoCall
    /\ earlier' = NoCall
    /\ UNCHANGED <<class, parameters, model, other, probe, redis>>

\* the same instance is given one input after another
AnyExecute ==
    /\ pc \in {"new", "idle"}
    /\ \E inputCommand \in ReuseInputs : Execute(inputCommand)
    /\ UNCHANGED <<earlier, other, probe, redis>>

NextReuse ==
    \/ \E p \in AddableParameters : AddParameter(p)
    \/ AnyExecute
    \/ Run
    \/ Handled

SpecReuse == InitReuse /\ [][NextReuse]_vars

----------------------------------------------------------------------------
(* Two calls of execute that overlap on one instance *)

\* the inputs of the second call: no text, the name alone, a help request,
\* a parameter without a value, and one parameter with a value
OverlapInputs ==
    {<<>>, name, name \o SPACE \o HELP, name \o SPACE \o FROM}
        \cup {name \o SPACE \o p \o SPACE \o v : p \in {FROM, TO}, v \in {D0900, D1030}}

\* execute is called again before the callback of the call before it has
\* run: the parse of the new call is done at once, on the same this.model
OverlapExecute ==
    /\ pc = "pending"
    /\ earlier = NoCall
    /\ earlier' = call
    /\ \E inputCommand \in OverlapInputs : Execute(inputCommand)
    /\ UNCHANGED <<other, probe, redis>>

\* the callback of the earlier call
RunEarlier ==
    /\ earlier.outcome = "pending"
    /\ LET d == RunCallback(class, earlier, model)
       IN  /\ model' = d.model
           /\ earlier' = d.call
    /\ UNCHANGED <<class, parameters, pc, call, other, probe, redis>>

NextOverlap ==
    \/ \E p \in AddableParameters : AddParameter(p)
    \/ AnyExecute
    \/ OverlapExecute
    \/ RunEarlier
    \/ Run

SpecOverlap == InitReuse /\ [][NextOverlap]_vars

----------------------------------------------------------------------------
(* Two instances, each with one call of execute, in any interleaving *)

TwoInputs ==
    OverlapInputs
        \cup {name \o SPACE \o FROM \o SPACE \o D0900 \o SPACE \o TO \o SPACE \o D1030}

\* the instance the next step is about
This ==
    [class |-> class, parameters |-> parameters, model |-> model, pc |-> pc,
     call |-> call, earlier |-> earlier]

InitTwo ==
    /\ InitOf({"TestCommand", "Command", "Base"})
    /\ other \in {Constructed(cls) : cls \in {"TestCommand", "Command", "Base"}}

\* the next step is about the other instance: this of the code now refers
\* to it, with its own parameters, model and pending call
Switch ==
    /\ class' = other.class
    /\ parameters' = other.parameters
    /\ model' = modelOf(other.model, model)
    /\ pc' = other.pc
    /\ call' = other.call
    /\ earlier' = other.earlier
    /\ other' = This
    /\ UNCHANGED <<probe, redis>>

TwoExecute ==
    /\ pc = "new"
    /\ \E inputCommand \in TwoInputs : Execute(inputCommand)
    /\ UNCHANGED <<earlier, other, probe, redis>>

NextTwo ==
    \/ \E p \in AddableParameters : AddParameter(p)
    \/ TwoExecute
    \/ Run
    \/ Switch

SpecTwo == InitTwo /\ [][NextTwo]_vars

----------------------------------------------------------------------------
(* The registry of parameters, its lookups and the help texts *)

MaxAdds == 3

ONE == <<"1">>

\* the names of the parameters a caller adds
RegistryNames == {FROM, TO, ONE, CONSTRUCTOR}

\* the names that are looked up
LookupNames == RegistryNames \cup {COMPLEX, <<>>}

HelpInputs ==
    {HELP, name \o SPACE \o HELP}
        \cup {name \o SPACE \o HELP \o SPACE \o n : n \in LookupNames \ {<<>>}}

\* the caller constructs a parameter and adds it; probe.added keeps the
\* objects in the order of the calls
RegistryAdd(n) ==
    /\ pc = "new"
    /\ Len(probe.added) < MaxAdds
    /\ LET p == Parameter(n, Len(probe.added) + 2)
       IN  /\ parameters' = addParameter(parameters, p)
           /\ probe' = [probe EXCEPT !.kind = "add", !.asked = n, !.got = NULL,
                                     !.added = Append(@, p)]
    /\ UNCHANGED <<class, model, pc, call, earlier, other, redis>>

RegistryGet(n) ==
    /\ pc = "new"
    /\ probe' = [probe EXCEPT !.kind = "get", !.asked = n,
                              !.got = getParameter(parameters, n)]
    /\ UNCHANGED <<class, parameters, model, pc, call, earlier, other, redis>>

HelpExecute ==
    /\ pc = "new"
    /\ \E inputCommand \in HelpInputs : Execute(inputCommand)
    /\ UNCHANGED <<earlier, other, probe, redis>>

NextRegistry ==
    \/ \E n \in RegistryNames : RegistryAdd(n)
    \/ \E n \in LookupNames : RegistryGet(n)
    \/ HelpExecute

SpecRegistry == Init /\ [][NextRegistry]_vars

----------------------------------------------------------------------------
(* willParseCommand asked directly *)

MaxTextLen == 5

\* the characters of the command name and the space
TextChars == {"t", "e", "s", " "}

TESTING == <<"t", "e", "s", "t", "i", "n", "g", ".", ".", ".">>

TextsOf(n) == UNION {[1..k -> TextChars] : k \in 0..n}

PrefixTexts == TextsOf(MaxTextLen) \cup {TESTING}

\* the function is pure: one question per instance shows all of it
AskWillParse(t) ==
    /\ probe.kind = "none"
    /\ probe' = [probe EXCEPT !.kind = "willParse", !.asked = t,
                              !.accepts = willParseCommand(t)]
    /\ UNCHANGED <<class, parameters, model, pc, call, earlier, other, redis>>

NextPrefix == \E t \in PrefixTexts : AskWillParse(t)

SpecPrefix == Init /\ [][NextPrefix]_vars

----------------------------------------------------------------------------
(* The tokenizer: inputs with repeated, empty and unregistered words *)

MaxTokens == 4

X == <<"x">>

\* the words of the argument text: the names of two parameters, a value, the
\* empty word two spaces in a row give, and a word that is an inherited key
TokenWords == {FROM, TO, X, <<>>, CONSTRUCTOR}

TokenSeqs(n) == UNION {[1..k -> TokenWords] : k \in 0..n}

TESTING_FROM_X == <<"t", "e", "s", "t", "i", "n", "g", " ", "f", "r", "o", "m", " ", "x">>

\* the name, a space and the words; the name alone; the name followed by
\* other characters than a space
TokenInputs ==
    {name \o SPACE \o Join(ws) : ws \in TokenSeqs(MaxTokens)}
        \cup {name, TESTING_FROM_X, name \o FROM \o SPACE \o X}

TokenExecute ==
    /\ pc = "new"
    /\ \E inputCommand \in TokenInputs : Execute(inputCommand)
    /\ UNCHANGED <<earlier, other, probe, redis>>

NextTokens ==
    \/ \E p \in AddableParameters : AddParameter(p)
    \/ TokenExecute
    \/ Run

SpecTokens == Init /\ [][NextTokens]_vars

----------------------------------------------------------------------------
(* CommandRegistry *)

COMMANDS_MAP_KEY_BASE == <<"h", "u", "b", "o", "t", "-", "c", "o", "m", "m", "a", "n", "d", "s", ".", "r", "e", "g", "i", "s", "t", "r", "y">>

composeCommandKey(command) == COMMANDS_MAP_KEY_BASE \o <<".">> \o command.name

\* what hgetall yields for a key the server does not hold
NoHash == [name |-> <<>>, description |-> <<>>]

\* redis.hgetall(key) on the store
hgetall(store, key) ==
    IF \E e \in store : e.key = key
    THEN (CHOOSE e \in store : e.key = key).hash
    ELSE NoHash

\* CommandRegistry.addCommand(command): the return statement ends at the end
\* of its line, so the call returns undefined and the chain after it, with
\* hgetall and hset, is never evaluated: the store is not asked and not written
addCommand(store, command) == [returned |-> "undefined", store |-> store]

\* the names of the commands that have entries, and the descriptions they have
EntryNames == {name, HELP}

EntryDescriptions(n) == {n, TEST_HELP}

\* the stores a launch may find: for each name no entry, or one entry
Entries ==
    UNION {{[key |-> composeCommandKey([name |-> n]),
             hash |-> [name |-> n, description |-> d]] : d \in EntryDescriptions(n)} :
           n \in EntryNames}

Stores == {st \in SUBSET Entries : \A e1 \in st, e2 \in st : e1.key = e2.key => e1 = e2}

\* the command of this instance, as addCommand reads it
ThisCommand == [name |-> name, help |-> commandHelp(class)]

InitCommands ==
    /\ class \in {"TestCommand", "Command", "Base"}
    /\ parameters = Constructed(class).parameters
    /\ model = EmptyModel
    /\ pc = "new"
    /\ call = NoCall
    /\ earlier = NoCall
    /\ other = Constructed(class)
    /\ probe = NoProbe
    /\ redis \in Stores

AddCommand ==
    /\ LET r == addCommand(redis, ThisCommand)
       IN  /\ redis' = r.store
           /\ probe' = [probe EXCEPT !.kind = "addCommand", !.asked = ThisCommand.name,
                                     !.hash = NoHash,
                                     !.returned = r.returned, !.before = redis]
    /\ UNCHANGED <<class, parameters, model, pc, call, earlier, other>>

\* CommandRegistry.getCommand(commandName): the promise of hgetall
GetCommand(commandName) ==
    /\ probe' = [probe EXCEPT !.kind = "getCommand", !.asked = commandName,
                              !.hash = hgetall(redis, composeCommandKey([name |-> commandName])),
                              !.returned = "promise", !.before = redis]
    /\ UNCHANGED <<class, parameters, model, pc, call, earlier, other, redis>>

NextCommands ==
    \/ AddCommand
    \/ \E n \in EntryNames : GetCommand(n)

SpecCommands == InitCommands /\ [][NextCommands]_vars

----------------------------------------------------------------------------
(* Vocabulary of the properties *)

\* the text starts with the command name, character for character
HasNamePrefix(t) ==
    /\ Len(t) >= Len(name)
    /\ \A i \in 1..Len(name) : t[i] = name[i]

\* the text holds the four characters h, e, l, p in a row somewhere
ContainsHelp(t) ==
    \E i \in 1..Len(t) : i + 3 <= Len(t) /\ <<t[i], t[i + 1], t[i + 2], t[i + 3]>> = HELP

\* the text after the command name and the one character that follows it
ArgumentText(t) == SubSeq(t, Len(name) + 2, Len(t))

\* the model field a parameter writes
FieldOf(p) == IF p = FROM THEN "from" ELSE IF p = TO THEN "to" ELSE "complexDump"

\* the value a parameter stores for a text
ConvertedValue(p, v) == IF p = COMPLEX THEN v ELSE NewDate(v)

Registered == {parameters[i].name : i \in 1..Len(parameters)}

\* positions of the log of the latest call that hold an event of a kind
EventsOf(o) == {i \in 1..Len(call.log) : call.log[i].op = o}

Called == call.outcome # "none"

\* name p1 v1 p2 v2, separated by single spaces
TwoParameterText(p1, v1, p2, v2) ==
    name \o SPACE \o p1 \o SPACE \o v1 \o SPACE \o p2 \o SPACE \o v2

ValueWords == {D0900, D1030}

TEST_COMMAND_INPUT_STRING == TwoParameterText(FROM, D0900, TO, D1030)

\* what is left of a help request without the first occurrence of the
\* command name and the first occurrence of "help", trimmed
Remainder(t) == Trim(ReplaceFirst(ReplaceFirst(t, name), HELP))

\* every parameter object added to the instance so far, the constructor's first
History == (IF class = "TestCommand" THEN TestParameters ELSE <<>>) \o probe.added

AddedUnder(n) == {i \in 1..Len(History) : History[i].name = n}

LastAdded(n) == History[CHOOSE i \in AddedUnder(n) : \A j \in AddedUnder(n) : j <= i]

\* the names of a history of additions, each at its first addition
RECURSIVE NamesInAddOrder(_, _)
NamesInAddOrder(h, i) ==
    IF i > Len(h) THEN <<>>
    ELSE (IF \E j \in 1..(i - 1) : h[j].name = h[i].name THEN <<>> ELSE <<h[i].name>>)
         \o NamesInAddOrder(h, i + 1)

ListingLine(n) == <<"\t", "-", " ">> \o n \o <<":", " ">> \o helpHeader(n) \o <<"\n">>

RECURSIVE ListingLines(_)
ListingLines(ns) == IF ns = <<>> THEN <<>> ELSE ListingLine(Head(ns)) \o ListingLines(Tail(ns))

\* the words of the argument text of the latest call
ArgumentWords == Split(ArgumentText(call.text))

\* the positions of the boundary words: the words that name a registered
\* parameter
BoundaryPositions == {i \in 1..Len(ArgumentWords) : ArgumentWords[i] \in Registered}

\* the position of the k-th boundary word
NthBoundary(k) ==
    CHOOSE i \in BoundaryPositions : Cardinality({j \in BoundaryPositions : j <= i}) = k

\* the position of the last word before the next boundary word after position i
SegmentEnd(i) ==
    IF \E j \in BoundaryPositions : j > i
    THEN (CHOOSE j \in BoundaryPositions :
              j > i /\ \A h \in BoundaryPositions : h > i => j <= h) - 1
    ELSE Len(ArgumentWords)

\* the words at the positions from..to, joined by single spaces, without
\* white space at the ends
JoinedWords(from, to) == Trim(Join(SubSeq(ArgumentWords, from, to)))

IsConversion(e) == e.op = "parse"

\* the conversions of the latest call, in the order they were invoked
ParseEvents == SelectSeq(call.log, IsConversion)

----------------------------------------------------------------------------
(* C1 *)

\* C1 as stated: every text that does not start with the command name is
\* rejected with a ParseError, and neither validate nor run is invoked
C1_RejectsEveryForeignText ==
    (Called /\ ~HasNamePrefix(call.text)) =>
        /\ call.outcome = "rejected"
        /\ call.error = "ParseError"
        /\ call.validated = "none"
        /\ call.runs = 0

\* C1 amended: for a text that does not start with the command name, no
\* parameter conversion, validate or run is invoked, and the call is rejected
\* with a ParseError unless the text contains "help" (then it is answered as
\* a help request)
C1_ForeignTextNeverParsed ==
    (Called /\ ~HasNamePrefix(call.text)) =>
        /\ call.log = <<>>
        /\ call.validated = "none"
        /\ call.runs = 0
        /\ (~ContainsHelp(call.text) =>
                call.outcome = "rejected" /\ call.error = "ParseError")

C1_Witness ==
    /\ Called
    /\ ~HasNamePrefix(call.text)
    /\ ~ContainsHelp(call.text)
    /\ \E p \in Registered : IndexOf(call.text, p) # 0
    /\ call.outcome = "rejected"

----------------------------------------------------------------------------
(* C2 *)

\* C2: the model validate sees holds no field left by an earlier call: each
\* of its fields was written by a parameter conversion of this call
C2_ModelResetEachParse ==
    (Called /\ call.validated # "none") =>
        \A f \in DOMAIN call.parsed :
            \E i \in EventsOf("parse") : FieldOf(call.log[i].param) = f

----------------------------------------------------------------------------
(* C3 *)

\* C3: when a whole-input parameter is registered, a call that gets as far as
\* validate has invoked that parameter's parse with the whole argument text
C3_WholeInputVerbatim ==
    (Called /\ ~call.help /\ call.validated # "none") =>
        \A p \in Registered :
            wholeCommandString(p) =>
                \E i \in EventsOf("parse") :
                    /\ call.log[i].param = p
                    /\ call.log[i].text = ArgumentText(call.text)

----------------------------------------------------------------------------
(* C4 *)

NoBoundaryWord(t) ==
    LET words == Split(ArgumentText(t))
    IN  \A i \in 1..Len(words) : words[i] \notin Registered

\* C4: an input without any parameter name converts nothing, leaves the
\* model as it was, fails for no such reason and goes on to validate
C4_NoBoundaryIsNoOp ==
    (Called /\ ~call.help /\ HasNamePrefix(call.text) /\ NoBoundaryWord(call.text)) =>
        /\ EventsOf("parse") = {}
        /\ call.parsed = call.before
        /\ call.validated # "none"

----------------------------------------------------------------------------
(* C5 *)

\* C5: a rejection of execute carries a ParseError or a ValidationError
C5_OnlyTypedRejections ==
    call.outcome = "rejected" => call.error \in {"ParseError", "ValidationError"}

----------------------------------------------------------------------------
(* C6 *)

\* C6: when the parameters parsed and validate returned false, the call is
\* rejected with a ValidationError and run is not invoked
C6_FalseValidateRejects ==
    (Called /\ call.validated = "false") =>
        /\ call.outcome = "rejected"
        /\ call.error = "ValidationError"
        /\ call.runs = 0
        /\ EventsOf("run") = {}
        /\ pc = "settled"

C6_Witness ==
    /\ call.validated = "false"
    /\ Cardinality(EventsOf("parse")) >= 2
    /\ call.outcome = "rejected"

----------------------------------------------------------------------------
(* C7 *)

OrderedHooks ==
    /\ Cardinality(EventsOf("validate")) <= 1
    /\ Cardinality(EventsOf("run")) <= 1
    /\ call.runs = Cardinality(EventsOf("run"))
    /\ \A i \in EventsOf("parse"), j \in EventsOf("validate") : i < j
    /\ \A j \in EventsOf("run") :
          /\ call.validated = "true"
          /\ \E i \in EventsOf("validate") : i < j

\* C7 as stated: every non-help call that has settled invoked validate
\* exactly once, after its conversions, and run at most once after that
C7_ValidateExactlyOnce ==
    (Called /\ ~call.help /\ pc = "settled") =>
        /\ Cardinality(EventsOf("validate")) = 1
        /\ OrderedHooks

\* C7 amended: within a non-help call validate is invoked at most once and
\* only after every conversion of the call, exactly once when the call
\* resolves or is rejected with a ValidationError and not at all when a
\* ParseError rejects it; run is invoked at most once, only after validate
\* returned true, and exactly once when the call resolves
C7_HooksInOrder ==
    (Called /\ ~call.help) =>
        /\ OrderedHooks
        /\ (call.outcome \in {"pending", "resolved"} \/ call.error = "ValidationError")
              => Cardinality(EventsOf("validate")) = 1
        /\ call.error = "ParseError" => EventsOf("validate") = {}
        /\ call.outcome = "resolved" => Cardinality(EventsOf("run")) = 1
        /\ call.outcome = "pending" => EventsOf("run") = {}

C7_Witness ==
    /\ ~call.help
    /\ call.outcome = "resolved"
    /\ Cardinality(EventsOf("parse")) >= 2
    /\ Cardinality(EventsOf("run")) = 1

----------------------------------------------------------------------------
(* C8 *)

\* C8: for an input "test p1 v1 p2 v2" with two registered parameters p1
\* and p2 and two value words, once the parameters have parsed the model
\* holds the converted v1 in p1's field and the converted v2 in p2's field,
\* in whatever order the parameters were added
C8_BothValuesStored ==
    \A p1, p2 \in Registered : \A v1, v2 \in ValueWords :
        (/\ p1 # p2
         /\ Called
         /\ call.text = TwoParameterText(p1, v1, p2, v2)) =>
            /\ call.validated # "none"
            /\ Has(call.parsed, FieldOf(p1))
            /\ Has(call.parsed, FieldOf(p2))
            /\ call.parsed[FieldOf(p1)] = ConvertedValue(p1, v1)
            /\ call.parsed[FieldOf(p2)] = ConvertedValue(p2, v2)
            /\ DOMAIN call.parsed = {FieldOf(p1), FieldOf(p2)}

\* the parameters were added as to, from and the input names from first
C8_Witness ==
    /\ parameters = <<Parameter(TO, 1), Parameter(FROM, 1)>>
    /\ call.text = TwoParameterText(FROM, D1030, TO, D0900)
    /\ call.outcome = "pending"

----------------------------------------------------------------------------
(* C9 *)

\* C9: the test command resolves "test from 2015-12-01T09:00 to
\* 2015-12-01T10:30" to a model with from, to and executed
C9_TestCommandResolves ==
    (class = "TestCommand" /\ pc = "settled" /\ call.text = TEST_COMMAND_INPUT_STRING) =>
        /\ call.outcome = "resolved"
        /\ Has(model, "from") /\ model["from"] = NewDate(D0900)
        /\ Has(model, "to") /\ model["to"] = NewDate(D1030)
        /\ Has(model, "executed")

----------------------------------------------------------------------------
(* C10 *)

\* C10: a call is handled as a help request exactly when its text contains
\* "help" anywhere, and a help request invokes no conversion, validate or
\* run and leaves the model as it was
C10_HelpBySubstring ==
    Called =>
        /\ call.help <=> ContainsHelp(call.text)
        /\ call.help =>
              /\ call.log = <<>>
              /\ call.validated = "none"
              /\ call.runs = 0
              /\ model = call.before
              /\ pc = "settled"

\* "help" glued to the command name, on an instance whose model is not empty
C10_Witness ==
    /\ call.help
    /\ call.text = name \o <<"i">> \o HELP
    /\ model # EmptyModel

----------------------------------------------------------------------------
(* C11 *)

\* C11 as stated: a help request with no parameter name resolves to the
\* command's help string, then "\n\nParameters:\n", then one line
\* "\t- <name>: <header>\n" per registered parameter, in the order the
\* parameters were added, whatever their names are
C11_ListingInAddOrder ==
    (Called /\ call.help /\ Remainder(call.text) = <<>>) =>
        /\ call.outcome = "resolved"
        /\ call.result = commandHelp(class) \o PARAMETERS_TITLE
                            \o ListingLines(NamesInAddOrder(History, 1))

----------------------------------------------------------------------------
(* C12 *)

\* C12: a help request whose remainder is the name of a registered parameter
\* resolves to exactly that name, ":\n\t" and the detail text of the parameter
C12_ParameterHelpExact ==
    (Called /\ call.help /\ Remainder(call.text) \in Registered) =>
        /\ call.outcome = "resolved"
        /\ call.result = Remainder(call.text) \o <<":", "\n", "\t">>
                            \o helpDetail(Remainder(call.text))

C12_Witness ==
    /\ Called
    /\ call.text = name \o SPACE \o HELP \o SPACE \o TO
    /\ TO \in Registered
    /\ call.result = TO \o <<":", "\n", "\t">> \o TO_DETAIL

----------------------------------------------------------------------------
(* C13 *)

\* C13 as stated: a help request whose remainder is not empty and is not the
\* name of a registered parameter rejects with a ParseError whose message
\* names that text
C13_UnknownHelpRejects ==
    (Called /\ call.help /\ Remainder(call.text) # <<>>
            /\ Remainder(call.text) \notin Registered) =>
        /\ call.outcome = "rejected"
        /\ call.error = "ParseError"
        /\ call.message = GIVEN_PARAMETER \o Remainder(call.text) \o DOES_NOT_EXIST

----------------------------------------------------------------------------
(* C14 *)

\* C14: willParseCommand(text) is true exactly when the first length(name)
\* characters of the text are the characters of the name, whatever follows
\* them: "testing..." is accepted
C14_ExactLeadingPrefix ==
    (probe.kind = "willParse") => (probe.accepts <=> HasNamePrefix(probe.asked))

C14_Witness ==
    /\ probe.kind = "willParse"
    /\ probe.asked = TESTING
    /\ probe.accepts

----------------------------------------------------------------------------
(* C15 *)

\* C15: once the input of a call that is no help request has been parsed and
\* validated and its run has been invoked, the call is resolved with exactly
\* the value run returned (TestCommand.run returns the model, in which it has
\* set executed), or rejected with exactly the error run threw (Command.run
\* throws an Error that says run must be implemented)
C15_RunOutcomePropagated ==
    (Called /\ ~call.help /\ call.runs > 0) =>
        IF class = "Base"
        THEN /\ call.outcome = "rejected"
             /\ call.error = "Error"
             /\ call.message = RUN_UNIMPLEMENTED
        ELSE /\ call.outcome = "resolved"
             /\ call.error = "none"
             /\ call.value = model
             /\ Has(call.value, "executed")

C15_Witness ==
    /\ Called
    /\ ~call.help
    /\ call.validated = "true"
    /\ call.runs = 1
    /\ class = "Command"
    /\ call.outcome = "resolved"
    /\ Has(call.value, "from")
    /\ Has(call.value, "executed")

C15_RejectWitness ==
    /\ Called
    /\ call.validated = "true"
    /\ call.runs = 1
    /\ class = "Base"
    /\ call.outcome = "rejected"
    /\ Has(call.parsed, "to")

----------------------------------------------------------------------------
(* C16 *)

\* C16 as stated: after any sequence of addParameter calls, getParameter(n)
\* returns the parameter added last under the name n, and null for every
\* string under which no parameter was added
C16_LookupReturnsLastAdded ==
    (probe.kind = "get") =>
        probe.got = IF AddedUnder(probe.asked) # {} THEN LastAdded(probe.asked) ELSE NULL

----------------------------------------------------------------------------
(* C17 *)

\* the conversions of the latest call that failed: from and to throw for an
\* empty text
FailedConversions ==
    {i \in EventsOf("parse") : call.log[i].param \in {FROM, TO} /\ call.log[i].text = <<>>}

\* the model m after the conversions among the first k events of a log
RECURSIVE Converted(_, _, _)
Converted(m, log, k) ==
    IF k = 0 THEN m
    ELSE LET e == log[k]
             sofar == Converted(m, log, k - 1)
         IN  IF e.op = "parse"
             THEN Put(sofar, FieldOf(e.param), ConvertedValue(e.param, e.text))
             ELSE sofar

\* C17: when the conversion of a parameter fails, nothing is invoked after
\* it (no later conversion, no validate, no run), the call is rejected with
\* the ParseError the parameter threw, and the model is the model the call
\* found with the fields of the conversions before the failure written
C17_FailureStopsTheParse ==
    (Called /\ ~call.help) =>
        \A i \in FailedConversions :
            /\ i = Len(call.log)
            /\ call.validated = "none"
            /\ call.runs = 0
            /\ call.outcome = "rejected"
            /\ call.error = "ParseError"
            /\ call.message = THE_QUOTED \o call.log[i].param \o CANNOT_BE_EMPTY
            /\ call.parsed = Converted(call.before, call.log, i - 1)
            /\ model = call.parsed

C17_Witness ==
    /\ Called
    /\ call.text = name \o SPACE \o TO \o SPACE \o D0900 \o SPACE \o FROM \o SPACE \o TO
    /\ parameters = <<Parameter(FROM, 1), Parameter(TO, 1)>>
    /\ FailedConversions = {2}
    /\ call.outcome = "rejected"
    /\ call.parsed = Put(EmptyModel, "to", NewDate(D0900))

----------------------------------------------------------------------------
(* C18 *)

\* C18: when a second call of execute is made on an instance before the run
\* of the first call, the run of the first call reads the model as the parse
\* of the second call left it; the witness is an interleaving in which that
\* model holds a value written by a conversion of the second call where the
\* parse of the first call had left another
C18_FirstRunReadsSecondParse ==
    (earlier.runs > 0) => earlier.seen = call.parsed

C18_Witness ==
    /\ earlier.runs = 1
    /\ earlier.outcome = "resolved"
    /\ \E i \in EventsOf("parse") :
          LET f == FieldOf(call.log[i].param)
          IN  /\ Has(earlier.seen, f)
              /\ Has(earlier.parsed, f)
              /\ earlier.seen[f] = ConvertedValue(call.log[i].param, call.log[i].text)
              /\ earlier.seen[f] # earlier.parsed[f]
              /\ earlier.value[f] # earlier.parsed[f]

----------------------------------------------------------------------------
(* C19 *)

\* what one call of execute(text) makes of a fresh instance of a class with
\* the given parameters when nothing else happens: after execute has
\* returned, and after the callback if there is one
AloneExecuted(cls, params, text) == execute(cls, params, EmptyModel, text)

AloneSettled(cls, params, text) ==
    LET e == AloneExecuted(cls, params, text)
    IN  IF e.pc = "pending" THEN RunCallback(cls, e.call, e.model)
        ELSE [model |-> e.model, call |-> e.call]

AsAlone(inst) ==
    /\ (inst.pc = "new") => (inst.model = EmptyModel /\ inst.call = NoCall)
    /\ (inst.pc = "pending") =>
          LET e == AloneExecuted(inst.class, inst.parameters, inst.call.text)
          IN  inst.model = e.model /\ inst.call = e.call
    /\ (inst.pc = "settled") =>
          LET d == AloneSettled(inst.class, inst.parameters, inst.call.text)
          IN  inst.model = d.model /\ inst.call = d.call

\* C19: when two instances each get one call of execute, in every
\* interleaving of the calls and their callbacks the model, the outcome and
\* the result of each call are those of the same call made alone
C19_InstancesDoNotInterfere == AsAlone(This) /\ AsAlone(other)

C19_Witness ==
    /\ pc = "settled"
    /\ other.pc = "settled"
    /\ call.runs = 1
    /\ other.call.runs = 1
    /\ call.text = name \o SPACE \o FROM \o SPACE \o D0900
    /\ other.call.text = name \o SPACE \o FROM \o SPACE \o D1030
    /\ call.value = [from |-> NewDate(D0900), executed |-> TRUE]
    /\ other.call.value = [from |-> NewDate(D1030), executed |-> TRUE]

----------------------------------------------------------------------------
(* C20 *)

----------------------------------------------------------------------------
(* C21 *)

\* C21 as stated: addCommand returns a promise, and afterwards the registry
\* holds the entry {name, description} of the command under its key if the
\* key held nothing before, while an entry the key held before is unchanged
C21_AddCommandRegisters ==
    (probe.kind = "addCommand") =>
        LET key == composeCommandKey(ThisCommand)
        IN  /\ probe.returned = "promise"
            /\ IF \E e \in probe.before : e.key = key
               THEN hgetall(redis, key) = hgetall(probe.before, key)
               ELSE hgetall(redis, key) =
                        [name |-> ThisCommand.name, description |-> ThisCommand.help]

----------------------------------------------------------------------------
(* C22 *)

\* C22 as stated: the k-th conversion of a call is that of the k-th boundary
\* word, and the text it gets is made of the words between that boundary
\* word and the next one (or the end of the input), joined by single spaces,
\* without white space at its ends
C22_TextIsTheSegment ==
    (Called /\ ~call.help) =>
        \A k \in 1..Len(ParseEvents) :
            /\ k <= Cardinality(BoundaryPositions)
            /\ ParseEvents[k].param = ArgumentWords[NthBoundary(k)]
            /\ ParseEvents[k].text =
                   JoinedWords(NthBoundary(k) + 1, SegmentEnd(NthBoundary(k)))

----------------------------------------------------------------------------
(* C23 *)

EndsWithBoundary ==
    /\ Called
    /\ ~call.help
    /\ HasNamePrefix(call.text)
    /\ ArgumentWords[Len(ArgumentWords)] \in Registered

\* the last boundary word got its conversion, with the empty text, and from
\* and to rejected it
LastFinalizedEmpty ==
    LET last == ArgumentWords[Len(ArgumentWords)]
    IN  /\ Len(ParseEvents) = Cardinality(BoundaryPositions)
        /\ ParseEvents[Len(ParseEvents)].param = last
        /\ ParseEvents[Len(ParseEvents)].text = <<>>
        /\ (last \in {FROM, TO} =>
                /\ call.outcome = "rejected"
                /\ call.error = "ParseError"
                /\ call.message = THE_QUOTED \o last \o CANNOT_BE_EMPTY)

\* C23 as stated: when the input ends with a boundary word, the last
\* parameter is finalized with the empty string as its text, and for from
\* and to the call is rejected with the ParseError about the empty parameter
C23_LastBoundaryFinalized == EndsWithBoundary => LastFinalizedEmpty

\* the loop over the words of the latest call came to its end without an
\* exception
ScanCompleted ==
    ScanWords(parameters, ArgumentWords, 1, ParseStart(call.before)).err = "none"

\* C23 amended: when the input ends with a boundary word and no exception is
\* raised before the end of the scan, the last parameter is finalized with
\* the empty string as its text, and for from and to the call is rejected
\* with the ParseError about that empty parameter
C23_LastBoundaryFinalizedAfterScan ==
    (EndsWithBoundary /\ ScanCompleted) => LastFinalizedEmpty

C23_Witness ==
    /\ EndsWithBoundary
    /\ call.text = name \o SPACE \o TO \o SPACE \o X \o SPACE \o FROM
    /\ Len(ParseEvents) = 2
    /\ ParseEvents[2] = [op |-> "parse", param |-> FROM, text |-> <<>>]
    /\ call.error = "ParseError"
    /\ call.message = THE_QUOTED \o FROM \o CANNOT_BE_EMPTY

----------------------------------------------------------------------------
(* C24 *)

\* C24: the text that is split into words is the input without its first
\* length(name) + 1 characters, whatever the character after the name is
C24_ArgumentDropsOneCharacter ==
    (Called /\ ~call.help /\ HasNamePrefix(call.text)) =>
        /\ call.argument = ArgumentText(call.text)
        /\ Len(call.argument) =
               (IF Len(call.text) > Len(name) THEN Len(call.text) - Len(name) - 1 ELSE 0)

C24_Witness ==
    /\ Called
    /\ call.text = TESTING_FROM_X
    /\ call.argument = <<"n", "g", " ", "f", "r", "o", "m", " ", "x">>
    /\ ParseEvents = <<[op |-> "parse", param |-> FROM, text |-> X]>>

----------------------------------------------------------------------------
(* C25 *)

\* C25: the text of every conversion is made of words that come after the
\* boundary word of its parameter, so the words before the first boundary
\* word are passed to no parameter, and the first conversion is that of the
\* first boundary word
C25_LeadingWordsDropped ==
    (Called /\ ~call.help) =>
        /\ \A k \in 1..Len(ParseEvents) :
              \E i \in BoundaryPositions : \E e \in i..Len(ArgumentWords) :
                  /\ ArgumentWords[i] = ParseEvents[k].param
                  /\ ParseEvents[k].text = JoinedWords(i + 1, e)
        /\ (ParseEvents # <<>> =>
                /\ ParseEvents[1].param = ArgumentWords[NthBoundary(1)]
                /\ \E e \in NthBoundary(1)..Len(ArgumentWords) :
                      ParseEvents[1].text = JoinedWords(NthBoundary(1) + 1, e))

C25_Witness ==
    /\ Called
    /\ call.text = name \o SPACE \o X \o SPACE \o FROM
    /\ FROM \in Registered
    /\ ParseEvents = <<[op |-> "parse", param |-> FROM, text |-> <<>>]>>

----------------------------------------------------------------------------
(* C26 *)

\* C26: in a parse that succeeds the conversions are those of the boundary
\* words, one per occurrence and in the order of the occurrences: as many
\* conversions as boundary words, the k-th of them of the parameter the k-th
\* boundary word names
C26_OneConversionPerBoundary ==
    (Called /\ ~call.help /\ call.validated = "true") =>
        /\ Len(ParseEvents) = Cardinality(BoundaryPositions)
        /\ \A k \in 1..Len(ParseEvents) :
              ParseEvents[k].param = ArgumentWords[NthBoundary(k)]

C26_Witness ==
    /\ Called
    /\ call.validated = "true"
    /\ call.text = name \o SPACE \o FROM \o SPACE \o X \o SPACE \o FROM \o SPACE \o X
    /\ Registered = {FROM, TO}
    /\ Len(ParseEvents) = 2
    /\ ParseEvents[1].param = FROM
    /\ ParseEvents[2].param = FROM


====
